---------------------------- MODULE Spec2Model ----------------------------
(***************************************************************************)
(* Model of the three pipelines of consulta_wiki:                          *)
(*   kcore_analisis.py   (onion layers + core numbers  -> onion_layers.csv)*)
(*   louvain_export.py   (Louvain communities -> communities_louvain.csv)  *)
(*   visualizar_grafo.py (drawing of the largest connected component)      *)
(* Each pipeline reads the node and edge records of the input document,    *)
(* builds a networkx MultiDiGraph, collapses it to an undirected Graph,    *)
(* keeps the largest connected component and analyses it.                  *)
(*                                                                         *)
(* Values: ids, labels and edge endpoints are strings; None stands for     *)
(* Python's None (a key missing from a record, or an attribute missing     *)
(* from a networkx node).                                                  *)
(***************************************************************************)
EXTENDS Integers, Sequences, FiniteSets, TLC

VARIABLES nodes,          \* data["nodes"]: sequence of [id, label]
          edges,          \* data["edges"]: sequence of [source, target]
          pipeline,       \* which script runs: "kcore", "louvain", "viz"
          pc,             \* position of main() of that script
          G,              \* the local variable G of main()/load_property_graph
          degrees,        \* onion_layers: live degree of the remaining nodes
          current_core,   \* onion_layers: current_core
          current_layer,  \* onion_layers: current_layer
          min_degree,     \* onion_layers: min_degree of the last round (-1: unset)
          od_layers,      \* onion_layers: od_layers (node -> layer)
          core_num,       \* main(): core_num = nx.core_number(G)
          rows            \* the rows written to onion_layers.csv

vars == <<nodes, edges, pipeline, pc, G, degrees, current_core, current_layer,
          min_degree, od_layers, core_num, rows>>

(***************************************************************************)
(* Bounds of the checked inputs.                                           *)
(***************************************************************************)
MaxNodeRecs == 2
MaxEdgeRecs == 3

None == "<None>"
IdOrder == <<"A", "B", "C", "D", "E", "F">>
GraphIds == SubSeq(IdOrder, 1, 5)

Range(s) == {s[i] : i \in DOMAIN s}
SeqsUpTo(S, n) == UNION {[1..k -> S] : k \in 0..n}
EmptyFun == [x \in {} |-> 0]
Restrict(f, S) == [x \in S |-> f[x]]

\* Python truthiness of a string-or-None: `if nid:`, `if s and t:`, `x or ""`.
Truthy_NotNone(x) == x # None
Truthy(x) == x # None /\ x # ""
or_empty(x) == IF Truthy(x) THEN x ELSE ""

(***************************************************************************)
(* networkx.MultiDiGraph as built by load_property_graph.                  *)
(*   order : the nodes in insertion order (dict order of G._node)          *)
(*   label : node -> value of the 'label' attribute, None when the node    *)
(*           has no such attribute (a node created by add_edge)            *)
(*   edges : the accepted <<source, target>> pairs in insertion order      *)
(***************************************************************************)
EmptyMulti == [order |-> <<>>, label |-> EmptyFun, edges |-> <<>>]

\* Gm.add_node(nid, label=lab): a new node is appended; an existing node keeps
\* its position and has its attribute dict updated with the new label.
add_node_KeepFirst(Gm, nid, lab) ==
    IF nid \in Range(Gm.order) THEN Gm
    ELSE [Gm EXCEPT !.order = Append(@, nid), !.label = (nid :> lab) @@ @]
add_node(Gm, nid, lab) ==
    IF nid \in Range(Gm.order)
    THEN [Gm EXCEPT !.label = (nid :> lab) @@ @]
    ELSE [Gm EXCEPT !.order = Append(@, nid), !.label = (nid :> lab) @@ @]

\* The endpoint handling of Gm.add_edge(u, v): a missing endpoint becomes a
\* node with an empty attribute dict.
touch_node(Gm, n) ==
    IF n \in Range(Gm.order) THEN Gm
    ELSE [Gm EXCEPT !.order = Append(@, n), !.label = (n :> None) @@ @]

add_edge(Gm, s, t) ==
    LET Gt == touch_node(touch_node(Gm, s), t)
    IN  [Gt EXCEPT !.edges = Append(@, <<s, t>>)]

RECURSIVE AddNodeRecords(_, _, _)
AddNodeRecords(Gm, ns, i) ==
    IF i > Len(ns) THEN Gm
    ELSE LET nid == ns[i].id
         IN  AddNodeRecords(IF Truthy(nid)
                            THEN add_node(Gm, nid, or_empty(ns[i].label))
                            ELSE Gm,
                            ns, i + 1)

RECURSIVE AddEdgeRecords(_, _, _)
AddEdgeRecords(Gm, es, i) ==
    IF i > Len(es) THEN Gm
    ELSE LET s == es[i].source
             t == es[i].target
         IN  AddEdgeRecords(IF Truthy(s) /\ Truthy(t) THEN add_edge(Gm, s, t) ELSE Gm,
                            es, i + 1)

\* The MultiDiGraph part of load_property_graph (the edge attribute
\* property_label kept by visualizar_grafo.py is read by nothing).
load_multigraph(ns, es) == AddEdgeRecords(AddNodeRecords(EmptyMulti, ns, 1), es, 1)

\* Gm.edges(): for every node in node order, for every successor in the order
\* the successor was first added, one pair per parallel edge.
RECURSIVE Dedup(_)
Dedup(s) ==
    IF s = <<>> THEN <<>>
    ELSE LET r == Dedup(SubSeq(s, 1, Len(s) - 1))
             x == s[Len(s)]
         IN  IF x \in Range(r) THEN r ELSE Append(r, x)

RECURSIVE Flatten(_)
Flatten(ss) == IF ss = <<>> THEN <<>> ELSE Head(ss) \o Flatten(Tail(ss))

multi_edges(Gm) ==
    LET Out(n) == SelectSeq(Gm.edges, LAMBDA e : e[1] = n)
        Succ(n) == Dedup([i \in 1..Len(Out(n)) |-> Out(n)[i][2]])
        To(n, t) == SelectSeq(Out(n), LAMBDA e : e[2] = t)
        OfNode(n) == Flatten([j \in 1..Len(Succ(n)) |-> To(n, Succ(n)[j])])
    IN  Flatten([i \in 1..Len(Gm.order) |-> OfNode(Gm.order[i])])

(***************************************************************************)
(* networkx.Graph.                                                         *)
(*   order  : the nodes in insertion order                                 *)
(*   label  : node -> 'label' attribute (None: no such attribute)          *)
(*   edges  : set of edges, an edge being the set of its endpoints {u, v}  *)
(*            (a self-loop is the singleton {u})                           *)
(*   weight : edge -> 'weight' attribute, defined for the edges that       *)
(*            carry one                                                    *)
(*   adj    : node -> its neighbours in the order they entered G._adj[n]   *)
(***************************************************************************)
EmptyGraph ==
    [order |-> <<>>, label |-> EmptyFun, edges |-> {}, weight |-> EmptyFun,
     adj |-> EmptyFun]

\* The adjacency part of G.add_edge(u, v): v enters the neighbours of u and u
\* those of v, each at the end and only when not there yet.
link(adj, u, v) ==
    LET a1 == IF v \in Range(adj[u]) THEN adj ELSE [adj EXCEPT ![u] = Append(@, v)]
    IN  IF u \in Range(a1[v]) THEN a1 ELSE [a1 EXCEPT ![v] = Append(@, u)]

\* One iteration of the collapse loop of louvain_export.py / visualizar_grafo.py.
collapse_edge_NoSum(Gs, u, v) ==
    LET e == {u, v}
    IN  IF e \in Gs.edges THEN Gs
        ELSE [Gs EXCEPT !.edges = @ \cup {e}, !.weight = (e :> 1) @@ @,
                        !.adj = link(@, u, v)]
collapse_edge(Gs, u, v) ==
    LET e == {u, v}
    IN  IF e \in Gs.edges
        THEN [Gs EXCEPT !.weight = (e :> (Gs.weight[e] + 1)) @@ @]
        ELSE [Gs EXCEPT !.edges = @ \cup {e}, !.weight = (e :> 1) @@ @,
                        !.adj = link(@, u, v)]

\* One iteration of the collapse loop of kcore_analisis.py: no weight attribute.
collapse_edge_plain(Gs, u, v) ==
    LET e == {u, v}
    IN  IF e \in Gs.edges THEN Gs
        ELSE [Gs EXCEPT !.edges = @ \cup {e}, !.adj = link(@, u, v)]

RECURSIVE CollapseLoop(_, _, _, _)
CollapseLoop(Gs, es, i, weighted) ==
    IF i > Len(es) THEN Gs
    ELSE CollapseLoop(IF weighted THEN collapse_edge(Gs, es[i][1], es[i][2])
                                  ELSE collapse_edge_plain(Gs, es[i][1], es[i][2]),
                      es, i + 1, weighted)

to_simple_graph(Gm, weighted) ==
    CollapseLoop([EmptyGraph EXCEPT !.order = Gm.order, !.label = Gm.label,
                                    !.adj = [n \in Range(Gm.order) |-> <<>>]],
                 multi_edges(Gm), 1, weighted)

\* The canonical graph each script builds from the input document.
Weighted(p) == p \in {"louvain", "viz"}
Canonical(ns, es, p) == to_simple_graph(load_multigraph(ns, es), Weighted(p))


(***************************************************************************)
(* Graph queries used by the analyses.                                     *)
(***************************************************************************)
NodeSet(Gs) == Range(Gs.order)
HasSelfLoop(Gs, n) == {n} \in Gs.edges
number_of_selfloops(Gs) == Cardinality({n \in NodeSet(Gs) : HasSelfLoop(Gs, n)})
\* G[n]: the adjacency of n (n itself when it carries a self-loop).
Adj(Gs, n) == {m \in NodeSet(Gs) : {n, m} \in Gs.edges}
\* G.degree(n): a self-loop counts twice.
Degree(Gs, n) ==
    Cardinality(Adj(Gs, n) \ {n}) + (IF HasSelfLoop(Gs, n) THEN 2 ELSE 0)

\* _plain_bfs(G, v): the nodes reachable from v.
RECURSIVE Grow(_, _)
Grow(Gs, S) ==
    LET T == S \cup UNION {Adj(Gs, n) : n \in S}
    IN  IF T = S THEN S ELSE Grow(Gs, T)
plain_bfs(Gs, v) == Grow(Gs, {v})

\* list(nx.connected_components(G)): one component per not yet seen node, in
\* node order.
RECURSIVE ComponentsFrom(_, _, _)
ComponentsFrom(Gs, i, seen) ==
    IF i > Len(Gs.order) THEN <<>>
    ELSE LET v == Gs.order[i]
         IN  IF v \in seen THEN ComponentsFrom(Gs, i + 1, seen)
             ELSE LET c == plain_bfs(Gs, v)
                  IN  <<c>> \o ComponentsFrom(Gs, i + 1, seen \cup c)
connected_components(Gs) == ComponentsFrom(Gs, 1, {})

\* max(comps, key=len): the first component of the greatest length.
RECURSIVE MaxScan_Last(_, _, _)
MaxScan_Last(comps, i, best) ==
    IF i > Len(comps) THEN best
    ELSE MaxScan_Last(comps, i + 1,
                      IF Cardinality(comps[i]) >= Cardinality(best) THEN comps[i] ELSE best)
RECURSIVE MaxScan(_, _, _)
MaxScan(comps, i, best) ==
    IF i > Len(comps) THEN best
    ELSE MaxScan(comps, i + 1,
                 IF Cardinality(comps[i]) > Cardinality(best) THEN comps[i] ELSE best)
max_by_len_Last(comps) == MaxScan_Last(comps, 2, comps[1])
max_by_len(comps) == MaxScan(comps, 2, comps[1])

OrdersOf(S) ==
    {s \in [1..Cardinality(S) -> S] : \A i, j \in DOMAIN s : s[i] = s[j] => i = j}

\* The node orders G.subgraph(giant).copy() can have: the graph's own order
\* when the component holds at least half of the nodes, and otherwise the
\* iteration order of the Python set `giant`, which depends on the string
\* hash seed of the process.
SubgraphOrders(Gs, giant) ==
    IF 2 * Cardinality(giant) < Len(Gs.order)
    THEN OrdersOf(giant)
    ELSE {SelectSeq(Gs.order, LAMBDA n : n \in giant)}

\* The adjacency of a copy, which adds the edges anew: for every node in the
\* order ord, for every neighbour it has within keep, in the node's own
\* neighbour order, add_edge(node, neighbour).
RECURSIVE RelinkNode(_, _, _, _)
RelinkNode(adj, u, vs, j) ==
    IF j > Len(vs) THEN adj ELSE RelinkNode(link(adj, u, vs[j]), u, vs, j + 1)
RECURSIVE RelinkFrom(_, _, _, _, _)
RelinkFrom(adj, ord, old, keep, i) ==
    IF i > Len(ord) THEN adj
    ELSE RelinkFrom(RelinkNode(adj, ord[i],
                               SelectSeq(old[ord[i]], LAMBDA v : v \in keep), 1),
                    ord, old, keep, i + 1)
relinked(ord, old, keep) ==
    RelinkFrom([n \in Range(ord) |-> <<>>], ord, old, keep, 1)

\* G.subgraph(giant).copy() with its nodes in the order ord.
Induced(Gs, giant, ord) ==
    LET es == {e \in Gs.edges : e \subseteq giant}
    IN  [order  |-> ord,
         label  |-> Restrict(Gs.label, giant),
         edges  |-> es,
         weight |-> Restrict(Gs.weight, es \cap DOMAIN Gs.weight),
         adj    |-> relinked(ord, Gs.adj, giant)]

\* The end of load_property_graph in kcore_analisis.py and louvain_export.py:
\* the graphs `G.subgraph(max(comps, key=len)).copy()` can be.
keep_largest(Gs) ==
    IF Len(Gs.order) = 0 THEN {Gs}
    ELSE LET giant == max_by_len(connected_components(Gs))
         IN  {Induced(Gs, giant, ord) : ord \in SubgraphOrders(Gs, giant)}

\* H = nx.Graph(G): a copy with the same nodes, attributes and edges.
graph_copy(Gs) == [Gs EXCEPT !.adj = relinked(Gs.order, Gs.adj, Range(Gs.order))]

\* largest_connected_component of visualizar_grafo.py: the empty graph is
\* returned as it is, any other graph is copied first.
largest_connected_component(Gs) ==
    IF Len(Gs.order) = 0 THEN {Gs} ELSE keep_largest(graph_copy(Gs))

(***************************************************************************)
(* networkx.algorithms.core as called by kcore_analisis.main.              *)
(***************************************************************************)
DegreeMap(Gs) == [n \in NodeSet(Gs) |-> Degree(Gs, n)]
MinOf(S) == CHOOSE x \in S : \A y \in S : x <= y
MaxOf(S) == CHOOSE x \in S : \A y \in S : x >= y

\* sorted(degrees, key=degrees.get): a stable sort of the keys in dict order.
RECURSIVE InsertBy(_, _, _)
InsertBy(s, x, key) ==
    IF s = <<>> THEN <<x>>
    ELSE IF key[s[Len(s)]] <= key[x] THEN Append(s, x)
    ELSE Append(InsertBy(SubSeq(s, 1, Len(s) - 1), x, key), s[Len(s)])
RECURSIVE SortedBy(_, _)
SortedBy(s, key) ==
    IF s = <<>> THEN <<>>
    ELSE InsertBy(SortedBy(SubSeq(s, 1, Len(s) - 1), key), s[Len(s)], key)

\* nx.core_number(G) for a graph without self-loops (Batagelj-Zaversnik):
\* vert is the list `nodes` (0-based), bin is bin_boundaries, pos is node_pos.
\* nbrs holds the neighbour lists list(nx.all_neighbors(G, v)).
CoreInit(Gs) ==
    LET deg == DegreeMap(Gs)
        srt == SortedBy(Gs.order, deg)
        n   == Len(srt)
        top == IF n = 0 THEN 0 ELSE MaxOf({deg[v] : v \in NodeSet(Gs)})
    IN  [vert |-> [i \in 0..(n - 1) |-> srt[i + 1]],
         pos  |-> [v \in NodeSet(Gs) |-> (CHOOSE i \in 1..n : srt[i] = v) - 1],
         bin  |-> [d \in 0..top |-> Cardinality({v \in NodeSet(Gs) : deg[v] < d})],
         core |-> deg,
         nbrs |-> [v \in NodeSet(Gs) |-> Gs.adj[v]]]

CoreVisit(st, v, u) ==
    IF st.core[u] > st.core[v]
    THEN LET p  == st.pos[u]
             bs == st.bin[st.core[u]]
             w  == st.vert[bs]
         IN  [vert |-> [st.vert EXCEPT ![bs] = u, ![p] = w],
              pos  |-> [[st.pos EXCEPT ![u] = bs] EXCEPT ![w] = p],
              bin  |-> [st.bin EXCEPT ![st.core[u]] = @ + 1],
              core |-> [st.core EXCEPT ![u] = @ - 1],
              nbrs |-> [st.nbrs EXCEPT ![u] = SelectSeq(@, LAMBDA x : x # v)]]
    ELSE st

RECURSIVE CoreInner(_, _, _, _)
CoreInner(st, v, us, j) ==
    IF j > Len(us) THEN st ELSE CoreInner(CoreVisit(st, v, us[j]), v, us, j + 1)

RECURSIVE CoreOuter(_, _, _)
CoreOuter(st, i, n) ==
    IF i >= n THEN st
    ELSE LET v == st.vert[i]
         IN  CoreOuter(CoreInner(st, v, st.nbrs[v], 1), i + 1, n)

core_number_Degree(Gs) == DegreeMap(Gs)
core_number(Gs) == CoreOuter(CoreInit(Gs), 0, Len(Gs.order)).core

\* onion_layers, the part before the loop: the isolated nodes take layer 1.
Isolates(Gs) == {n \in NodeSet(Gs) : Degree(Gs, n) = 0}

\* onion_layers, the layer of one round: the remaining nodes whose live degree
\* is at most the current core.
this_layer_Exact(deg, core) == {n \in DOMAIN deg : deg[n] = MinOf(Range(deg))}
this_layer(deg, core) == {n \in DOMAIN deg : deg[n] <= core}

\* The live degrees after the nodes of `layer` have been removed one by one.
degrees_after(Gs, deg, layer) ==
    [n \in (DOMAIN deg) \ layer |->
        deg[n] - Cardinality(Adj(Gs, n) \cap layer)]

(***************************************************************************)
(* The rows of onion_layers.csv.                                           *)
(***************************************************************************)
RowOf(Gs, ol, cn, n) ==
    [node_id |-> n, label |-> or_empty(Gs.label[n]), core |-> cn[n],
     layer |-> ol[n], degree |-> Degree(Gs, n)]

\* df.sort_values(by=["layer", "degree"], ascending=[False, False]): stable.
RowBefore(a, b) ==
    a.layer > b.layer \/ (a.layer = b.layer /\ a.degree >= b.degree)
RECURSIVE InsertRow(_, _)
InsertRow(s, r) ==
    IF s = <<>> THEN <<r>>
    ELSE IF RowBefore(s[Len(s)], r) THEN Append(s, r)
    ELSE Append(InsertRow(SubSeq(s, 1, Len(s) - 1), r), s[Len(s)])
RECURSIVE SortRows(_)
SortRows(s) ==
    IF s = <<>> THEN <<>>
    ELSE InsertRow(SortRows(SubSeq(s, 1, Len(s) - 1)), s[Len(s)])

onion_rows(Gs, ol, cn) ==
    SortRows([i \in 1..Len(Gs.order) |-> RowOf(Gs, ol, cn, Gs.order[i])])

(***************************************************************************)
(* The input documents explored.                                           *)
(*   RecordInputs : arbitrary short node lists (missing, empty and         *)
(*                  repeated ids, missing and empty labels) with at most   *)
(*                  one edge record;                                       *)
(*   EdgeInputs   : arbitrary short edge lists (both directions, repeated  *)
(*                  pairs, self-references, empty endpoints);              *)
(*   GraphInputs  : every simple graph on the first five ids, each with    *)
(*                  and without an extra self-referencing record on "A";   *)
(*   ScenarioInputs : three graphs on six ids.                             *)
(***************************************************************************)
NodeRec(i, l) == [id |-> i, label |-> l]
EdgeRec(s, t) == [source |-> s, target |-> t]

NodeRecs == {NodeRec(i, l) : i \in {None, "", "A", "B"}, l \in {None, "", "L1", "L2"}}
FewEdgeRecs == {EdgeRec(s, t) : s, t \in {None, "", "A", "C"}}
EdgeRecs == {EdgeRec(s, t) : s, t \in {"", "A", "B", "C"}}

RecordInputs == SeqsUpTo(NodeRecs, MaxNodeRecs) \X SeqsUpTo(FewEdgeRecs, 1)
EdgeInputs == {<<>>, <<NodeRec("B", "L1")>>} \X SeqsUpTo(EdgeRecs, MaxEdgeRecs)

AllNodes == [i \in 1..Len(GraphIds) |-> NodeRec(GraphIds[i], GraphIds[i])]
AllPairs ==
    LET N == Len(GraphIds)
        P == {<<i, j>> \in (1..N) \X (1..N) : i < j}
        Rank(p) == (p[1] - 1) * N + p[2]
        Nth(k) == CHOOSE p \in P : Cardinality({q \in P : Rank(q) < Rank(p)}) = k - 1
    IN  [k \in 1..Cardinality(P) |-> EdgeRec(GraphIds[Nth(k)[1]], GraphIds[Nth(k)[2]])]
GraphInputs ==
    {<<AllNodes, SelectSeq(AllPairs, LAMBDA e : e \in S) \o loop>> :
        S \in SUBSET Range(AllPairs), loop \in {<<>>, <<EdgeRec("A", "A")>>}}


\* Three six-node documents: a hub with two leaves on a path (C has degree 3
\* and leaves the peeling before D of degree 2), two triangles joined by the
\* bridge C-D, and a triangle-free 2-core in which, once A, B and C are gone,
\* D, E and F are left with the live degrees 1, 2 and 1.
HubOnPath ==
    <<EdgeRec("A", "C"), EdgeRec("B", "C"), EdgeRec("C", "D"), EdgeRec("D", "E"),
      EdgeRec("E", "F")>>
TwoTriangles ==
    <<EdgeRec("A", "B"), EdgeRec("B", "C"), EdgeRec("C", "A"), EdgeRec("C", "D"),
      EdgeRec("D", "E"), EdgeRec("E", "F"), EdgeRec("F", "D")>>
UnevenCore ==
    <<EdgeRec("A", "D"), EdgeRec("A", "F"), EdgeRec("B", "D"), EdgeRec("B", "F"),
      EdgeRec("C", "E"), EdgeRec("C", "F"), EdgeRec("D", "E"), EdgeRec("E", "F")>>
ScenarioInputs ==
    {<<>>, <<NodeRec("F", "L1")>>} \X {HubOnPath, TwoTriangles, UnevenCore}

Inputs == RecordInputs \cup EdgeInputs \cup GraphInputs \cup ScenarioInputs

(***************************************************************************)
(* The state machine: one run of one script on one input document.         *)
(***************************************************************************)
Init ==
    /\ \E inp \in Inputs : nodes = inp[1] /\ edges = inp[2]
    /\ pipeline \in {"kcore", "louvain", "viz"}
    /\ pc = "start"
    /\ G = EmptyGraph
    /\ degrees = EmptyFun
    /\ current_core = 1
    /\ current_layer = 1
    /\ min_degree = -1
    /\ od_layers = EmptyFun
    /\ core_num = EmptyFun
    /\ rows = <<>>

\* load_property_graph up to the collapsed graph (in visualizar_grafo.py:
\* load_property_graph followed by to_simple_graph).
Build ==
    /\ pc = "start"
    /\ G' = Canonical(nodes, edges, pipeline)
    /\ pc' = "built"
    /\ UNCHANGED <<nodes, edges, pipeline, degrees, current_core, current_layer,
                   min_degree, od_layers, core_num, rows>>

\* The largest-component step that ends load_property_graph (in
\* visualizar_grafo.py: largest_connected_component).
ExtractLCC ==
    /\ pc = "built"
    /\ G' \in IF pipeline = "viz" THEN largest_connected_component(G)
                                   ELSE keep_largest(G)
    /\ pc' = "loaded"
    /\ UNCHANGED <<nodes, edges, pipeline, degrees, current_core, current_layer,
                   min_degree, od_layers, core_num, rows>>

\* main() of kcore_analisis.py / louvain_export.py prints "Grafo vacio." and
\* returns; draw_graph warns and returns. Nothing is exported.
NothingToAnalyze ==
    /\ pc = "loaded"
    /\ Len(G.order) = 0
    /\ pc' = "empty"
    /\ UNCHANGED <<nodes, edges, pipeline, G, degrees, current_core, current_layer,
                   min_degree, od_layers, core_num, rows>>

\* onion_layers(G) up to its loop: NetworkXNotImplemented on a self-loop,
\* otherwise the isolated nodes take layer 1.
OnionStart ==
    /\ pc = "loaded"
    /\ pipeline = "kcore"
    /\ Len(G.order) > 0
    /\ IF number_of_selfloops(G) > 0
       THEN /\ pc' = "raised"
            /\ UNCHANGED <<degrees, current_core, current_layer, od_layers>>
       ELSE LET iso == Isolates(G)
            IN  /\ pc' = "peeling"
                /\ od_layers' = [n \in iso |-> 1]
                /\ degrees' = Restrict(DegreeMap(G), NodeSet(G) \ iso)
                /\ current_core' = 1
                /\ current_layer' = IF iso # {} THEN 2 ELSE 1
    /\ UNCHANGED <<nodes, edges, pipeline, G, min_degree, core_num, rows>>

\* One iteration of the while loop of onion_layers.
PeelRound ==
    /\ pc = "peeling"
    /\ DOMAIN degrees # {}
    /\ LET md    == MinOf(Range(degrees))
           cc    == IF md > current_core THEN md ELSE current_core
           layer == this_layer(degrees, cc)
       IN  /\ min_degree' = md
           /\ current_core' = cc
           /\ od_layers' = [n \in layer |-> current_layer] @@ od_layers
           /\ degrees' = degrees_after(G, degrees, layer)
           /\ current_layer' = current_layer + 1
    /\ UNCHANGED <<nodes, edges, pipeline, pc, G, core_num, rows>>

\* onion_layers returns od_layers; core_num = nx.core_number(G).
CoreNumber ==
    /\ pc = "peeling"
    /\ DOMAIN degrees = {}
    /\ core_num' = core_number(G)
    /\ pc' = "decomposed"
    /\ UNCHANGED <<nodes, edges, pipeline, G, degrees, current_core, current_layer,
                   min_degree, od_layers, rows>>

\* The rows, their sort and df.to_csv of kcore_analisis.main.
OnionExport ==
    /\ pc = "decomposed"
    /\ rows' = onion_rows(G, od_layers, core_num)
    /\ pc' = "exported"
    /\ UNCHANGED <<nodes, edges, pipeline, G, degrees, current_core, current_layer,
                   min_degree, od_layers, core_num>>

\* louvain_export.main from best_partition to df.to_csv. The partition is
\* computed by python-louvain from a seeded generator and is not represented.
LouvainExport ==
    /\ pc = "loaded"
    /\ pipeline = "louvain"
    /\ Len(G.order) > 0
    /\ pc' = "exported"
    /\ UNCHANGED <<nodes, edges, pipeline, G, degrees, current_core, current_layer,
                   min_degree, od_layers, core_num, rows>>

\* draw_graph on a non-empty graph: the figure is saved as PNG and SVG.
DrawGraph ==
    /\ pc = "loaded"
    /\ pipeline = "viz"
    /\ Len(G.order) > 0
    /\ pc' = "exported"
    /\ UNCHANGED <<nodes, edges, pipeline, G, degrees, current_core, current_layer,
                   min_degree, od_layers, core_num, rows>>

Next ==
    \/ Build
    \/ ExtractLCC
    \/ NothingToAnalyze
    \/ OnionStart
    \/ PeelRound
    \/ CoreNumber
    \/ OnionExport
    \/ LouvainExport
    \/ DrawGraph

Spec == Init /\ [][Next]_vars

(***************************************************************************)
(* Vocabulary of the properties, stated on the input document itself.      *)
(***************************************************************************)
Missing(x) == x \in {None, ""}
AcceptedNode(i) == ~Missing(nodes[i].id)
AcceptedEdge(i) == ~Missing(edges[i].source) /\ ~Missing(edges[i].target)
\* The accepted edge records joining u and v, in either direction.
Joining(u, v) ==
    {i \in DOMAIN edges : AcceptedEdge(i) /\ {edges[i].source, edges[i].target} = {u, v}}
LabelGiven(i) == IF Missing(nodes[i].label) THEN "" ELSE nodes[i].label
RecordsOf(id) == {i \in DOMAIN nodes : nodes[i].id = id}
Occurrences(s, x) == Cardinality({i \in DOMAIN s : s[i] = x})

\* C1: the canonical graph has no self-loop; an edge record whose source
\* equals its target adds no edge and no weight.
C1_NoSelfLoop ==
    pc = "built" =>
        /\ \A e \in G.edges : Cardinality(e) = 2
        /\ \A i \in DOMAIN edges :
              (AcceptedEdge(i) /\ edges[i].source = edges[i].target)
                  => {edges[i].source} \notin G.edges \cup DOMAIN G.weight

\* C2 as stated: in every canonical graph, two nodes are joined by an edge
\* exactly when some accepted record joins them, and that edge carries a
\* weight equal to the number of those records.
C2_WeightIsRecordCount ==
    pc = "built" =>
        \A u, v \in NodeSet(G) :
            LET c == Cardinality(Joining(u, v))
            IN  /\ ({u, v} \in G.edges) <=> (c > 0)
                /\ {u, v} \in G.edges =>
                      {u, v} \in DOMAIN G.weight /\ G.weight[{u, v}] = c

\* C2 amended: the edge set is as stated in all three scripts; the weight is
\* the record count in louvain_export.py and visualizar_grafo.py, and the
\* graph of kcore_analisis.py carries no weight at all.
C2_WeightIsRecordCountWhereWeighted ==
    pc = "built" =>
        /\ \A u, v \in NodeSet(G) :
              LET c == Cardinality(Joining(u, v))
              IN  /\ ({u, v} \in G.edges) <=> (c > 0)
                  /\ ({u, v} \in G.edges /\ pipeline \in {"louvain", "viz"}) =>
                        {u, v} \in DOMAIN G.weight /\ G.weight[{u, v}] = c
        /\ pipeline = "kcore" => DOMAIN G.weight = {}

C2_Witness ==
    /\ pc = "built"
    /\ pipeline = "louvain"
    /\ \E u, v \in NodeSet(G) :
          /\ u # v
          /\ {u, v} \in DOMAIN G.weight
          /\ G.weight[{u, v}] = 3
          /\ \E i, j \in Joining(u, v) : edges[i].source = edges[j].target

\* C3 as stated: one node per accepted id, labelled by the first record of
\* that id.
C3_FirstLabelWins ==
    pc = "built" =>
        \A i \in DOMAIN nodes :
            AcceptedNode(i) =>
                LET id == nodes[i].id
                    first == MinOf(RecordsOf(id))
                IN  /\ Occurrences(G.order, id) = 1
                    /\ G.label[id] = LabelGiven(first)

\* C3 amended: one node per accepted id, labelled by the last record of that
\* id (the empty string when that record has no label).
C3_LastLabelWins ==
    pc = "built" =>
        \A i \in DOMAIN nodes :
            AcceptedNode(i) =>
                LET id == nodes[i].id
                    last == MaxOf(RecordsOf(id))
                IN  /\ Occurrences(G.order, id) = 1
                    /\ G.label[id] = LabelGiven(last)

C3_Witness ==
    /\ pc = "built"
    /\ \E i, j \in DOMAIN nodes :
          /\ i < j
          /\ AcceptedNode(i)
          /\ nodes[i].id = nodes[j].id
          /\ LabelGiven(i) # LabelGiven(j)
          /\ LabelGiven(i) # ""

\* The connected component of v, stated without a traversal: the nodes that
\* lie in every set that holds v and is closed under adjacency.
ClosedSets(Gs) ==
    {T \in SUBSET NodeSet(Gs) : \A e \in Gs.edges : (e \cap T # {}) => e \subseteq T}
ComponentOf(Gs, v) ==
    {n \in NodeSet(Gs) : \A T \in ClosedSets(Gs) : v \in T => n \in T}
FirstIndex(Gs, S) == MinOf({i \in DOMAIN Gs.order : Gs.order[i] \in S})

\* C4: the graph left by LCC extraction is the induced subgraph on a
\* component of the greatest node count, and among the components of that
\* count on the one whose first node comes earliest in node order.
C4_LargestFirstComponent ==
    pc = "loaded" =>
        LET CG == Canonical(nodes, edges, pipeline)
            S  == NodeSet(G)
        IN  Len(CG.order) > 0 =>
              /\ \E v \in NodeSet(CG) : S = ComponentOf(CG, v)
              /\ \A v \in NodeSet(CG) :
                    LET T == ComponentOf(CG, v)
                    IN  /\ Cardinality(T) <= Cardinality(S)
                        /\ Cardinality(T) = Cardinality(S)
                              => FirstIndex(CG, S) <= FirstIndex(CG, T)
              /\ Len(G.order) = Cardinality(S)
              /\ G.edges = {e \in CG.edges : e \subseteq S}
              /\ \A n \in S : G.label[n] = CG.label[n]
              /\ \A e \in G.edges : e \in DOMAIN CG.weight =>
                    e \in DOMAIN G.weight /\ G.weight[e] = CG.weight[e]

\* A tie between two components of two or more nodes, resolved in favour of
\* one that does not start the node order of the input's node list.
C4_Witness ==
    /\ pc = "loaded"
    /\ LET CG == Canonical(nodes, edges, pipeline)
       IN  /\ Cardinality(NodeSet(G)) >= 2
           /\ \E v \in NodeSet(CG) \ NodeSet(G) :
                 Cardinality(ComponentOf(CG, v)) = Cardinality(NodeSet(G))

\* The largest k such that n lies in a subgraph whose nodes all have k or more
\* neighbours inside it.
MaxCoreOf(Gs, n) ==
    MaxOf({k \in 0..Cardinality(NodeSet(Gs)) :
            \E S \in SUBSET NodeSet(Gs) :
                /\ n \in S
                /\ \A m \in S : Cardinality((Adj(Gs, m) \ {m}) \cap S) >= k})

\* C5: for every input with a non-empty LCC the decomposition yields a core
\* number for every node, at most its degree and equal to the largest k such
\* that the node lies in a subgraph of minimum degree k.
C5_CoreNumbers ==
    (pipeline = "kcore" /\ pc \in {"raised", "decomposed", "exported"}) =>
        /\ pc # "raised"
        /\ DOMAIN core_num = NodeSet(G)
        /\ \A n \in NodeSet(G) :
              /\ core_num[n] <= Degree(G, n)
              /\ core_num[n] = MaxCoreOf(G, n)

\* C6: in the decomposition export, a lower layer never has a higher core.
C6_LayerMonotoneInCore ==
    (pipeline = "kcore" /\ pc = "exported") =>
        /\ Len(rows) = Len(G.order)
        /\ \A i, j \in DOMAIN rows :
              rows[i].layer < rows[j].layer => rows[i].core <= rows[j].core

C6_Witness ==
    /\ pipeline = "kcore"
    /\ pc = "exported"
    /\ \E i, j \in DOMAIN rows :
          rows[i].layer < rows[j].layer /\ rows[i].core < rows[j].core

\* The 4-cycle A-B-C-D with the diagonal A-C.
IsCycleWithDiagonal ==
    /\ pipeline = "kcore"
    /\ NodeSet(G) = {"A", "B", "C", "D"}
    /\ G.edges = {{"A", "B"}, {"B", "C"}, {"C", "D"}, {"D", "A"}, {"A", "C"}}

\* C7 as stated: on the 4-cycle with one diagonal every node has core 2 and
\* layer 1.
C7_AllInLayerOne ==
    (IsCycleWithDiagonal /\ pc \in {"decomposed", "exported"}) =>
        /\ core_num = [n \in {"A", "B", "C", "D"} |-> 2]
        /\ od_layers = [n \in {"A", "B", "C", "D"} |-> 1]

\* C7 amended: every node has core 2; B and D (degree 2) are in layer 1, A
\* and C (degree 3) in layer 2.
C7_TwoLayers ==
    (IsCycleWithDiagonal /\ pc \in {"decomposed", "exported"}) =>
        /\ core_num = [n \in {"A", "B", "C", "D"} |-> 2]
        /\ od_layers = [n \in {"A", "B", "C", "D"} |->
                            IF n \in {"B", "D"} THEN 1 ELSE 2]
        /\ pc = "exported" =>
              {<<rows[i].node_id, rows[i].core, rows[i].layer>> : i \in DOMAIN rows}
                  = {<<"A", 2, 2>>, <<"C", 2, 2>>, <<"B", 2, 1>>, <<"D", 2, 1>>}

C7_Witness == IsCycleWithDiagonal /\ pc = "exported"

\* C9: an input without accepted node or edge gives the empty graph, which
\* LCC extraction leaves unchanged, and the run can only end in the "nothing
\* to analyze" outcome: no error, no decomposition, no export.
NothingAccepted ==
    /\ \A i \in DOMAIN nodes : ~AcceptedNode(i)
    /\ \A i \in DOMAIN edges : ~AcceptedEdge(i)
C9_EmptyInput ==
    NothingAccepted =>
        /\ pc \in {"start", "built", "loaded", "empty"}
        /\ pc # "start" => G = EmptyGraph
        /\ pc = "loaded" => ENABLED NothingToAnalyze
        /\ rows = <<>> /\ od_layers = EmptyFun /\ core_num = EmptyFun

C9_Witness ==
    /\ NothingAccepted
    /\ pc = "empty"
    /\ nodes # <<>>
    /\ edges # <<>>

\* One round of peeling, and the nodes it removes.
IsPeelRound == pc = "peeling" /\ DOMAIN degrees # {}
Removed == (DOMAIN degrees) \ (DOMAIN degrees')

\* C10 as stated: a round removes exactly the nodes at the minimum live
\* degree d_min, gives them layer = round number and core = d_min, and d_min
\* never decreases from a round to the next.
C10_RemovesMinimumDegree ==
    [][IsPeelRound =>
        LET d_min == MinOf(Range(degrees))
        IN  /\ Removed = {n \in DOMAIN degrees : degrees[n] = d_min}
            /\ \A n \in Removed :
                  od_layers'[n] = current_layer /\ core_number(G)[n] = d_min
            /\ min_degree # -1 => d_min >= min_degree]_vars

\* C10 amended: a round removes exactly the nodes whose live degree is at
\* most k, the greatest d_min of the rounds so far; they get layer = round
\* number and core = k; k never decreases (d_min itself may). A single
\* isolated node is removed before the rounds with layer 1 and core 0.
C10_RemovesUpToCurrentCore ==
    [][/\ IsPeelRound =>
            LET d_min == MinOf(Range(degrees))
                k == current_core'
            IN  /\ k >= current_core /\ k >= d_min /\ k \in {current_core, d_min}
                /\ Removed = {n \in DOMAIN degrees : degrees[n] <= k}
                /\ Removed # {}
                /\ \A n \in Removed :
                      od_layers'[n] = current_layer /\ core_number(G)[n] = k
                /\ \A n \in DOMAIN degrees' :
                      degrees'[n] = Cardinality(Adj(G, n) \cap DOMAIN degrees')
       /\ (pc = "loaded" /\ pc' = "peeling") =>
            /\ NodeSet(G) \ DOMAIN degrees' = {n \in NodeSet(G) : Degree(G, n) = 0}
            /\ \A n \in NodeSet(G) \ DOMAIN degrees' :
                  od_layers'[n] = 1 /\ core_number(G)[n] = 0
            /\ current_layer' = 1 + Cardinality({1} \cap Range(od_layers'))]_vars

\* A round has been played whose d_min lay below the core in force and which
\* removed a node of a live degree above d_min.
LiveAtRemoval(n) ==
    Cardinality({m \in Adj(G, n) : m \notin DOMAIN od_layers \/ od_layers[m] >= od_layers[n]})
C10_Witness ==
    /\ pc = "peeling"
    /\ min_degree # -1
    /\ min_degree < current_core
    /\ \E n \in DOMAIN od_layers :
          od_layers[n] = current_layer - 1 /\ LiveAtRemoval(n) > min_degree

=============================================================================
